---- MODULE Spec2Model ----
(***************************************************************************)
(* Model of the thread-aware emission scheduler of discourse_to_ggroups    *)
(* (src/process_discourse_db.py): mail_topic_as_posts (sequential mode),   *)
(* mail_topics_as_posts_bf (breadth-first mode) and main.                  *)
(*                                                                         *)
(* The mail transport (gmailer.SendMessage) is the environment: every call *)
(* is recorded in `trace` together with the acknowledgment it returned,    *)
(* and the acknowledgment is chosen nondeterministically among well-formed *)
(* acknowledgments and the three malformed shapes the scheduler tests for. *)
(* time.sleep calls are recorded in `trace` as well.                       *)
(***************************************************************************)
EXTENDS Integers, Sequences, FiniteSets, TLC

VARIABLES
  mode,                        \* which entry point runs: "seq", "bf", "main"
  d,                           \* the unified document: tid -> topic entry
  tid,                         \* mail_topic_as_posts: the tid argument
  tids,                        \* mail_topics_as_posts_bf: the tids argument / local
  argv,                        \* main: sys.argv[1:] as given on the command line
  pc,                          \* position in the running function
  i,                           \* mail_topic_as_posts: loop variable i
  post_number,                 \* mail_topics_as_posts_bf: outer loop variable
  k,                           \* mail_topics_as_posts_bf: index of tid in tids
  most_posts_in_one_topic,     \* mail_topics_as_posts_bf: local
  thread_id,                   \* mail_topic_as_posts: local thread_id
  previous_message_id,         \* mail_topic_as_posts: local previous_message_id
  previous_message_id_by_tid,  \* mail_topics_as_posts_bf: local dictionary
  result,                      \* the last value returned by gmailer.SendMessage
  error,                       \* the exception that ended the run, if any
  files,                       \* main: number of writes of each output file
  trace,                       \* every SendMessage call and every sleep, in order
  fs,                          \* the local filesystem: the paths that exist
  call,                        \* arguments of a function called on its own
  ret                          \* what that function returned or raised

vars == <<mode, d, tid, tids, argv, pc, i, post_number, k,
          most_posts_in_one_topic, thread_id, previous_message_id,
          previous_message_id_by_tid, result, error, files, trace,
          fs, call, ret>>

(***************************************************************************)
(* Bounds                                                                  *)
(***************************************************************************)
MaxPosts == 3                \* most posts a topic of the document holds
MaxTotalPosts == 6           \* most posts the whole document holds

TopicIds == {1, 2, 3}        \* the topics of the document
\* A topic identifier that is not in the document.
UnknownTid == CHOOSE x \in 1..(Cardinality(TopicIds) + 1) : x \notin TopicIds

\* Python's None, a key that is absent from a dictionary, an unbound local.
None == "None"
Absent == "Absent"
Unbound == "Unbound"

\* Timing constants, in tenths of a second.
SLEEP_DURATION_BETWEEN_MAILINGS == 2
SLEEP_DURATION_BETWEEN_TOPIC_ROUNDS == 100

(***************************************************************************)
(* The document built by generate_single_dict: each topic entry has a list *)
(* of posts; 'thread_id' is a key that generate_single_dict does not set,  *)
(* so it is absent unless an earlier breadth-first run on the same         *)
(* document left one behind.                                               *)
(***************************************************************************)
\* Strings that the program inspects are sequences of characters.
HTTP_PREFIX == <<"h", "t", "t", "p", ":", "/", "/">>
HTTPS_PREFIX == <<"h", "t", "t", "p", "s", ":", "/", "/">>
PATH_TO_UPLOADS_DIR == <<"u", "p", "l", "o", "a", "d", "s", "/">>
INTERNAL_UPLOAD_PATH_PREFIX ==
  <<"/", "f", "o", "r", "u", "m", "/", "u", "p", "l", "o", "a", "d", "s", "/">>

\* A value that is None or a string.
StrNone == [none |-> TRUE, s |-> <<>>]
Str(s) == [none |-> FALSE, s |-> s]

\* str.startswith
StartsWith(s, prefix) ==
  Len(s) >= Len(prefix) /\ SubSeq(s, 1, Len(prefix)) = prefix

DefaultTitle == <<"T">>
DefaultAuthor == "alice (Alice alice@bob.not)"
DefaultCreated == "2017-01-01T01:00:00"

\* A post entry as lines 232-238 build it.
PostEntry(author, created, updated, img) ==
  [author |-> author, created |-> created, updated |-> updated,
   raw |-> "raw", cooked |-> "cooked", image_url |-> img]

Post == PostEntry(DefaultAuthor, DefaultCreated, DefaultCreated, StrNone)

\* A topic entry as lines 216-220 build it, with the given posts.
TopicEntryOf(title, posts, th) ==
  [author |-> DefaultAuthor, title |-> title, created |-> DefaultCreated,
   posts |-> posts, thread_id |-> th]

TopicEntry(n, th) == TopicEntryOf(DefaultTitle, [j \in 1..n |-> Post], th)

RECURSIVE SumOver(_, _)
SumOver(cnt, S) ==
  IF S = {} THEN 0
  ELSE LET t == CHOOSE x \in S : TRUE IN cnt[t] + SumOver(cnt, S \ {t})

PostCounts ==
  { cnt \in [TopicIds -> 0..MaxPosts] : SumOver(cnt, TopicIds) <= MaxTotalPosts }

Docs ==
  { [t \in TopicIds |-> TopicEntry(cnt[t], th)] :
      cnt \in PostCounts, th \in {Absent, "t0"} }

\* len(d[tid]['posts'])
NumPosts(doc, t) == Len(doc[t].posts)

\* The tids argument: None, or a list of distinct identifiers (the selection
\* is a set of topics; a list naming a topic twice is not modelled).
Injective(s) == \A a, b \in 1..Len(s) : s[a] = s[b] => a = b

TidLists ==
  { s \in UNION { [1..n -> TopicIds \cup {UnknownTid}] : n \in 0..Cardinality(TopicIds) } :
      Injective(s) }

TidsNone == [isNone |-> TRUE, list |-> <<>>]
TidsList(s) == [isNone |-> FALSE, list |-> s]

Selections == {TidsNone} \cup { TidsList(s) : s \in TidLists }

\* d.keys(): the keys of the dictionary in the order the dictionary yields
\* them, which is some order without repetition.
KeyOrders(doc) ==
  { s \in [1..Cardinality(DOMAIN doc) -> DOMAIN doc] : Injective(s) }

(***************************************************************************)
(* Acknowledgments of gmailer.SendMessage.                                 *)
(***************************************************************************)
AckIds == { <<"m1", "t1">>, <<"m2", "t2">> }

GoodAcks ==
  { [isdict |-> TRUE, haslabels |-> TRUE, labelIds |-> {"SENT"},
     id |-> a[1], threadId |-> a[2]] : a \in AckIds }

BadAcks ==
  { \* SendMessageInternal's "Error" string
    [isdict |-> FALSE, haslabels |-> FALSE, labelIds |-> {},
     id |-> Absent, threadId |-> Absent],
    \* a dictionary without 'labelIds'
    [isdict |-> TRUE, haslabels |-> FALSE, labelIds |-> {},
     id |-> "m1", threadId |-> "t1"],
    \* a dictionary whose 'labelIds' lacks 'SENT'
    [isdict |-> TRUE, haslabels |-> TRUE, labelIds |-> {"DRAFT"},
     id |-> "m1", threadId |-> "t1"] }

Acks == GoodAcks \cup BadAcks

NoResult ==
  [isdict |-> FALSE, haslabels |-> FALSE, labelIds |-> {},
   id |-> Unbound, threadId |-> Unbound]

\* Faulty variants of the test: one that only looks at the type of the
\* result, one that does not look for 'SENT' among the labels.
Acknowledged_DictOnly(r) == r.isdict

Acknowledged_NoSentTest(r) == r.isdict /\ r.haslabels

\* Faulty variant: the type of the result is not tested, so the string
\* "Error" passes.
Acknowledged_NoTypeTest(r) == ~r.isdict \/ (r.haslabels /\ "SENT" \in r.labelIds)

\* The negation of the test
\*   not isinstance(result, dict) or 'labelIds' not in result or
\*   'SENT' not in result['labelIds']
Acknowledged(r) == r.isdict /\ r.haslabels /\ "SENT" \in r.labelIds

(***************************************************************************)
(* Trace entries.                                                          *)
(***************************************************************************)
SendEntry(t, pos, att, th, reply, r) ==
  [op |-> "send", tid |-> t, pos |-> pos, attachment |-> att,
   thread_id |-> th, reply_to |-> reply, result |-> r, dur |-> 0]

SleepEntry(dur) ==
  [op |-> "sleep", tid |-> 0, pos |-> 0, attachment |-> StrNone,
   thread_id |-> None, reply_to |-> None, result |-> NoResult, dur |-> dur]

(***************************************************************************)
(* Errors.                                                                 *)
(***************************************************************************)
NoError == [type |-> "none", tid |-> 0, pos |-> 0]
Raised(type, t, pos) == [type |-> type, tid |-> t, pos |-> pos]

(***************************************************************************)
(* construct_post_email_contents: the outcome of its precondition checks   *)
(* and of the indexing d[tid]['posts'][post_number] that follows them.     *)
(***************************************************************************)
construct_post_email_contents(doc, t, pn) ==
  IF t \notin DOMAIN doc THEN "Exception_TopicNotKnown"
  ELSE IF NumPosts(doc, t) < pn THEN "Exception_NoSuchReply"
  ELSE IF pn >= NumPosts(doc, t) THEN "IndexError"
  ELSE "ok"

(***************************************************************************)
(* process_image_url(d, tid, post_number), lines 567-591; os.path.exists   *)
(* is membership in the set of existing paths.                             *)
(***************************************************************************)
exists(path, fsys) == path \in fsys

\* Faulty variant: only 'http://' references are recognised as remote.
process_image_url_HttpOnly(doc, t, pn, fsys) ==
  LET image_url == doc[t].posts[pn + 1].image_url IN
  IF image_url.none THEN StrNone
  ELSE IF StartsWith(image_url.s, HTTP_PREFIX) THEN StrNone
  ELSE LET path == IF StartsWith(image_url.s, INTERNAL_UPLOAD_PATH_PREFIX)
                     THEN PATH_TO_UPLOADS_DIR \o
                          SubSeq(image_url.s, Len(INTERNAL_UPLOAD_PATH_PREFIX) + 1,
                                 Len(image_url.s))
                     ELSE image_url.s
       IN IF ~exists(path, fsys) THEN StrNone ELSE Str(path)

process_image_url(doc, t, pn, fsys) ==
  LET image_url == doc[t].posts[pn + 1].image_url IN
  IF image_url.none THEN StrNone
  ELSE IF StartsWith(image_url.s, HTTP_PREFIX) \/ StartsWith(image_url.s, HTTPS_PREFIX)
    THEN StrNone
  ELSE LET path == IF StartsWith(image_url.s, INTERNAL_UPLOAD_PATH_PREFIX)
                     THEN PATH_TO_UPLOADS_DIR \o
                          SubSeq(image_url.s, Len(INTERNAL_UPLOAD_PATH_PREFIX) + 1,
                                 Len(image_url.s))
                     ELSE image_url.s
       IN IF ~exists(path, fsys) THEN StrNone ELSE Str(path)

\* No function is called on its own in a run of the scheduler.
NoCall == [fn |-> "none"]
NoRet == [status |-> "none"]

(***************************************************************************)
(* Initial states: one call of one entry point on one document.            *)
(***************************************************************************)
Init ==
  /\ mode \in {"seq", "bf", "main"}
  /\ d \in Docs
  /\ tid \in IF mode = "seq" THEN TopicIds \cup {UnknownTid} ELSE {0}
  /\ tids \in IF mode = "bf" THEN Selections ELSE {TidsNone}
  /\ argv \in IF mode = "main"
                THEN {<<>>, <<"all">>} \cup { <<ToString(t)>> : t \in TopicIds \cup {UnknownTid} }
                ELSE {<<>>}
  /\ pc = CASE mode = "seq" -> "seq_first"
            [] mode = "bf" -> "bf_init"
            [] OTHER -> "main_start"
  /\ i = 0
  /\ post_number = 0
  /\ k = 0
  /\ most_posts_in_one_topic = 0
  /\ thread_id = Unbound
  /\ previous_message_id = Unbound
  /\ previous_message_id_by_tid = <<>>
  /\ result = NoResult
  /\ error = NoError
  /\ files = [f \in {"topics.json", "posts.json", "users.json",
                     "processed_post_data.json"} |-> 0]
  /\ trace = <<>>
  /\ fs = {}
  /\ call = NoCall
  /\ ret = NoRet

(***************************************************************************)
(* mail_topic_as_posts(d, tid)                                             *)
(***************************************************************************)
\* Lines 371-376: the opening send passes five arguments; attachmentFile
\* keeps its default, None.
SeqFirstAttachment == StrNone

\* Lines 395, 404: the attachment handed to SendMessage for the later posts.
SeqAttachment == process_image_url(d, tid, i, fs)

\* Lines 370-390: render post 0, send it without attachment, thread or reply
\* reference, test the acknowledgment, keep its 'id' and 'threadId'.
SeqSendFirst ==
  /\ pc = "seq_first"
  /\ LET pre == construct_post_email_contents(d, tid, 0) IN
     IF pre # "ok"
       THEN /\ error' = Raised(pre, tid, 0)
            /\ pc' = "failed"
            /\ UNCHANGED <<trace, result, thread_id, previous_message_id, i>>
       ELSE \E r \in Acks :
            /\ trace' = Append(trace, SendEntry(tid, 0, SeqFirstAttachment, None, None, r))
            /\ result' = r
            /\ IF Acknowledged(r)
                 THEN /\ previous_message_id' = r.id
                      /\ thread_id' = r.threadId
                      /\ i' = 1
                      /\ pc' = "seq_loop"
                      /\ UNCHANGED error
                 ELSE /\ error' = Raised("Exception_UnableToSend", tid, 0)
                      /\ pc' = "failed"
                      /\ UNCHANGED <<thread_id, previous_message_id, i>>
  /\ UNCHANGED <<mode, d, tid, tids, argv, post_number, k,
                 most_posts_in_one_topic, previous_message_id_by_tid, files>>
  /\ UNCHANGED <<fs, call, ret>>

\* Faulty variant: the range stops one post early.
SeqRange_Short == 1..(NumPosts(d, tid) - 2)

\* Line 392: range(1, len(d[tid]['posts'])).
SeqRange == 1..(NumPosts(d, tid) - 1)

\* Lines 405-406: the thread identifier and the reply reference handed to
\* SendMessage for the posts after the first.
\* Faulty variant: the thread identifier of the latest acknowledgment is
\* handed on in place of the one kept from the first send.
SeqThreadArg_LatestResult == result.threadId

SeqThreadArg == thread_id

SeqReplyArg == previous_message_id

\* Lines 392-415: one iteration of `for i in range(1, len(d[tid]['posts']))`.
SeqSendNext ==
  /\ pc = "seq_loop"
  /\ i \in SeqRange
  /\ \E r \in Acks :
       /\ result' = r
       /\ IF Acknowledged(r)
            THEN /\ trace' = Append(Append(trace,
                       SendEntry(tid, i, SeqAttachment, SeqThreadArg, SeqReplyArg, r)),
                       SleepEntry(SLEEP_DURATION_BETWEEN_MAILINGS))
                 /\ previous_message_id' = r.id
                 /\ i' = i + 1
                 /\ UNCHANGED <<pc, error>>
            ELSE /\ trace' = Append(trace,
                       SendEntry(tid, i, SeqAttachment, SeqThreadArg, SeqReplyArg, r))
                 /\ error' = Raised("Exception_UnableToSend", tid, i)
                 /\ pc' = "failed"
                 /\ UNCHANGED <<previous_message_id, i>>
  /\ UNCHANGED <<mode, d, tid, tids, argv, post_number, k,
                 most_posts_in_one_topic, thread_id,
                 previous_message_id_by_tid, files>>
  /\ UNCHANGED <<fs, call, ret>>

\* The range is exhausted: the function returns.
SeqReturn ==
  /\ pc = "seq_loop"
  /\ i \notin SeqRange
  /\ pc' = "done"
  /\ UNCHANGED <<mode, d, tid, tids, argv, i, post_number, k,
                 most_posts_in_one_topic, thread_id, previous_message_id,
                 previous_message_id_by_tid, result, error, files, trace>>
  /\ UNCHANGED <<fs, call, ret>>

(***************************************************************************)
(* mail_topics_as_posts_bf(d, tids=None)                                   *)
(***************************************************************************)
\* The first index of the list whose identifier is not a key of the
\* document, or Len + 1 when every identifier is known.
FirstUnknown(doc, s) ==
  IF \E a \in 1..Len(s) : s[a] \notin DOMAIN doc
    THEN CHOOSE a \in 1..Len(s) :
           /\ s[a] \notin DOMAIN doc
           /\ \A b \in 1..(a - 1) : s[b] \in DOMAIN doc
    ELSE Len(s) + 1

\* Faulty variant: the comparison of line 449 reversed, which keeps the
\* smallest post count.
MostPosts_Least(doc, seen) ==
  LET S == { NumPosts(doc, t) : t \in seen }
  IN IF S = {} THEN 0 ELSE CHOOSE m \in S : \A n \in S : m <= n

\* Faulty variant: one round fewer than the largest post count.
MostPosts_OneFewer(doc, seen) ==
  LET S == { NumPosts(doc, t) : t \in seen } \cup {0}
      m == CHOOSE x \in S : \A n \in S : n <= x
  IN IF m > 0 THEN m - 1 ELSE 0

\* Lines 444-450: the largest post count among the topics visited.
MostPosts(doc, seen) ==
  LET S == { NumPosts(doc, t) : t \in seen } \cup {0}
  IN CHOOSE m \in S : \A n \in S : n <= m

\* Lines 478-479: the thread identifier and the reply reference handed to
\* SendMessage for topic t.
\* Faulty variant: one thread identifier shared by all topics, the one of
\* the latest acknowledgment.
BfThreadArg_LastResult(t) == IF result = NoResult THEN None ELSE result.threadId

BfThreadArg(t) == d[t].thread_id

BfReplyArg(t) == previous_message_id_by_tid[t]

\* Lines 468, 477: the attachment handed to SendMessage for topic t.
BfAttachment(t) == process_image_url(d, t, post_number, fs)

\* Faulty variant: the thread identifier is stored in every topic of the
\* document.
BfThreadAfter_EveryTopic(doc, t, r) ==
  [x \in DOMAIN doc |-> [doc[x] EXCEPT !.thread_id = r.threadId]]

\* Faulty variant: the thread identifier is stored only while it is null.
BfThreadAfter_WriteOnce(doc, t, r) ==
  IF doc[t].thread_id = None THEN [doc EXCEPT ![t].thread_id = r.threadId] ELSE doc

\* Line 491: d[tid]['thread_id'] = result['threadId']
BfThreadAfter(doc, t, r) == [doc EXCEPT ![t].thread_id = r.threadId]

\* Lines 441-456: `tids = d.keys()` when no list is given, then the loop
\* that finds the largest post count and resets the per-topic thread state.
\* The loop indexes d[tid] (line 449) before it tests `tid not in d`
\* (line 452), so an unknown identifier ends it with a KeyError, after the
\* identifiers before it have been reset.
BfInit ==
  /\ pc = "bf_init"
  /\ \E s \in IF tids.isNone THEN KeyOrders(d) ELSE {tids.list} :
       LET bad == FirstUnknown(d, s)
           seen == { s[a] : a \in 1..(bad - 1) }
       IN
       /\ tids' = TidsList(s)
       /\ most_posts_in_one_topic' = MostPosts(d, seen)
       /\ d' = [t \in DOMAIN d |->
                  IF t \in seen THEN [d[t] EXCEPT !.thread_id = None] ELSE d[t]]
       /\ previous_message_id_by_tid' = [t \in seen |-> None]
       /\ IF bad <= Len(s)
            THEN /\ error' = Raised("KeyError", s[bad], 0)
                 /\ pc' = "failed"
                 /\ UNCHANGED <<post_number, k>>
            ELSE /\ pc' = "bf_round"
                 /\ post_number' = 0
                 /\ k' = 1
                 /\ UNCHANGED error
  /\ UNCHANGED <<mode, tid, argv, i, thread_id, previous_message_id,
                 result, files, trace>>
  /\ UNCHANGED <<fs, call, ret>>

\* Lines 463-464: the topic has no post at this position: `continue`.
BfSkip ==
  /\ pc = "bf_round"
  /\ post_number < most_posts_in_one_topic
  /\ k <= Len(tids.list)
  /\ post_number >= NumPosts(d, tids.list[k])
  /\ k' = k + 1
  /\ UNCHANGED <<mode, d, tid, tids, argv, pc, i, post_number,
                 most_posts_in_one_topic, thread_id, previous_message_id,
                 previous_message_id_by_tid, result, error, files, trace>>
  /\ UNCHANGED <<fs, call, ret>>

\* Lines 466-492: render and send the post of one topic at this position
\* with the topic's own thread and message identifiers, test the
\* acknowledgment, sleep, store the acknowledged identifiers.  Building the
\* message of the exception evaluates str(i): the function has no name i,
\* so a NameError is raised in place of the exception.
BfSend ==
  /\ pc = "bf_round"
  /\ post_number < most_posts_in_one_topic
  /\ k <= Len(tids.list)
  /\ post_number < NumPosts(d, tids.list[k])
  /\ LET t == tids.list[k]
         pre == construct_post_email_contents(d, t, post_number)
     IN
     IF pre # "ok"
       THEN /\ error' = Raised(pre, t, post_number)
            /\ pc' = "failed"
            /\ UNCHANGED <<trace, result, d, previous_message_id_by_tid, k>>
       ELSE \E r \in Acks :
            /\ result' = r
            /\ IF Acknowledged(r)
                 THEN /\ trace' = Append(Append(trace,
                            SendEntry(t, post_number, BfAttachment(t), BfThreadArg(t),
                                      BfReplyArg(t), r)),
                            SleepEntry(SLEEP_DURATION_BETWEEN_MAILINGS))
                      /\ d' = BfThreadAfter(d, t, r)
                      /\ previous_message_id_by_tid' =
                           [previous_message_id_by_tid EXCEPT ![t] = r.id]
                      /\ k' = k + 1
                      /\ UNCHANGED <<pc, error>>
                 ELSE /\ trace' = Append(trace,
                            SendEntry(t, post_number, BfAttachment(t), BfThreadArg(t),
                                      BfReplyArg(t), r))
                      /\ error' = Raised("NameError", 0, 0)
                      /\ pc' = "failed"
                      /\ UNCHANGED <<d, previous_message_id_by_tid, k>>
  /\ UNCHANGED <<mode, tid, tids, argv, i, post_number,
                 most_posts_in_one_topic, thread_id, previous_message_id,
                 files>>
  /\ UNCHANGED <<fs, call, ret>>

\* Line 494: every topic has been visited in this round.
BfRoundEnd ==
  /\ pc = "bf_round"
  /\ post_number < most_posts_in_one_topic
  /\ k > Len(tids.list)
  /\ trace' = Append(trace, SleepEntry(SLEEP_DURATION_BETWEEN_TOPIC_ROUNDS))
  /\ post_number' = post_number + 1
  /\ k' = 1
  /\ UNCHANGED <<mode, d, tid, tids, argv, pc, i, most_posts_in_one_topic,
                 thread_id, previous_message_id, previous_message_id_by_tid,
                 result, error, files>>
  /\ UNCHANGED <<fs, call, ret>>

\* range(0, most_posts_in_one_topic) is exhausted: the function returns.
BfReturn ==
  /\ pc = "bf_round"
  /\ post_number >= most_posts_in_one_topic
  /\ pc' = "done"
  /\ UNCHANGED <<mode, d, tid, tids, argv, i, post_number, k,
                 most_posts_in_one_topic, thread_id, previous_message_id,
                 previous_message_id_by_tid, result, error, files, trace>>
  /\ UNCHANGED <<fs, call, ret>>

(***************************************************************************)
(* main()                                                                  *)
(***************************************************************************)
\* Faulty variant: the dump of the processed document is left out.
FilesAfterMain_NoSnapshot(f) ==
  [x \in DOMAIN f |-> IF x = "processed_post_data.json" THEN f[x] ELSE f[x] + 1]

\* Lines 604-611: print_to_json writes topics.json, posts.json and
\* users.json, then main writes processed_post_data.json.
FilesAfterMain(f) == [x \in DOMAIN f |-> f[x] + 1]

\* Lines 602-611: harvest, print_to_json, generate_single_dict (d is its
\* result) and the dump of the document to processed_post_data.json.
MainHarvestAndSave ==
  /\ pc = "main_start"
  /\ files' = FilesAfterMain(files)
  /\ pc' = "main_select"
  /\ UNCHANGED <<mode, d, tid, tids, argv, i, post_number, k,
                 most_posts_in_one_topic, thread_id, previous_message_id,
                 previous_message_id_by_tid, result, error, trace>>
  /\ UNCHANGED <<fs, call, ret>>

\* Line 614: `len(sys.argv) == 2 and ...`.  The module imports psycopg2,
\* json, datetime, gmailer, time and os.path (lines 43-48) and never binds
\* the name sys, so evaluating the selector raises a NameError whatever the
\* command line is; neither branch (lines 615-619, 621-628) is entered.
MainSelect ==
  /\ pc = "main_select"
  /\ error' = Raised("NameError", 0, 0)
  /\ pc' = "failed"
  /\ UNCHANGED <<mode, d, tid, tids, argv, i, post_number, k,
                 most_posts_in_one_topic, thread_id, previous_message_id,
                 previous_message_id_by_tid, result, files, trace>>
  /\ UNCHANGED <<fs, call, ret>>

Next ==
  \/ SeqSendFirst
  \/ SeqSendNext
  \/ SeqReturn
  \/ BfInit
  \/ BfSkip
  \/ BfSend
  \/ BfRoundEnd
  \/ BfReturn
  \/ MainHarvestAndSave
  \/ MainSelect

Spec == Init /\ [][Next]_vars

(***************************************************************************)
(* Vocabulary of the properties: what the trace shows.                     *)
(***************************************************************************)
\* The positions of the trace that are SendMessage calls.
SendIdx == { n \in 1..Len(trace) : trace[n].op = "send" }

\* The positions of the trace that are SendMessage calls for topic t.
SendIdxOf(t) == { n \in SendIdx : trace[n].tid = t }

\* A send result that is a dictionary with 'labelIds' containing 'SENT'.
CarriesSentMarker(r) == r.isdict /\ r.haslabels /\ "SENT" \in r.labelIds

AllSendsAcked == \A n \in SendIdx : CarriesSentMarker(trace[n].result)

Ended == pc \in {"done", "failed"}

\* The send of position pos of topic t has been issued.
WasSent(t, pos) == \E n \in SendIdxOf(t) : trace[n].pos = pos

\* The topics a breadth-first run has selected (after lines 441-442).
Selected == { tids.list[a] : a \in 1..Len(tids.list) }

(***************************************************************************)
(* C1: fail-fast in both modes.  A send whose result is not a dictionary,  *)
(* has no 'labelIds' or lacks 'SENT' is the last thing the run does: the   *)
(* run has ended with an error, and nothing (no send for any topic, no     *)
(* sleep) follows it in the trace.                                         *)
(***************************************************************************)
C1_FailFast ==
  \A n \in SendIdx :
    ~CarriesSentMarker(trace[n].result) =>
      /\ n = Len(trace)
      /\ pc = "failed"
      /\ error.type # "none"

\* A breadth-first run aborted at a send that is not the first, while
\* another topic still had a post to send.
C1_Witness ==
  /\ mode = "bf"
  /\ pc = "failed"
  /\ Cardinality(SendIdx) >= 2
  /\ ~CarriesSentMarker(trace[Len(trace)].result)
  /\ \E t \in Selected : t \in DOMAIN d /\ t # trace[Len(trace)].tid
                          /\ ~WasSent(t, NumPosts(d, t) - 1)
                          /\ NumPosts(d, t) >= 1

\* The same in sequential mode: the abort left posts of the topic unsent.
C1_WitnessSeq ==
  /\ mode = "seq"
  /\ pc = "failed"
  /\ Cardinality(SendIdx) = 2
  /\ ~CarriesSentMarker(trace[Len(trace)].result)
  /\ NumPosts(d, tid) = 3

(***************************************************************************)
(* C2: breadth-first round order.  In a breadth-first run over known       *)
(* topics in which every send was acknowledged: the run does not fail;     *)
(* only posts that exist are sent, each at most once; positions never      *)
(* decrease along the trace; a send of position r + 1 comes only after     *)
(* every selected topic with more than r posts has had its position r      *)
(* sent; and when the run is done every post of every selected topic has   *)
(* been sent.                                                              *)
(***************************************************************************)
C2_BreadthFirstRounds ==
  (mode = "bf" /\ pc # "bf_init" /\ AllSendsAcked /\ Selected \subseteq DOMAIN d) =>
    /\ pc # "failed"
    /\ \A n \in SendIdx :
         /\ trace[n].tid \in Selected
         /\ trace[n].pos < NumPosts(d, trace[n].tid)
         /\ \A m \in SendIdx :
              /\ (m < n => trace[m].pos <= trace[n].pos)
              /\ (trace[m].tid = trace[n].tid /\ trace[m].pos = trace[n].pos => m = n)
         /\ \A t \in Selected :
              (trace[n].pos >= 1 /\ NumPosts(d, t) > trace[n].pos - 1) =>
                 \E m \in SendIdxOf(t) : m < n /\ trace[m].pos = trace[n].pos - 1
    /\ pc = "done" =>
         \A t \in Selected : \A pos \in 0..(NumPosts(d, t) - 1) : WasSent(t, pos)

\* The run of the specification's example: post counts 3, 1, 2.
C2_Witness ==
  /\ mode = "bf"
  /\ pc = "done"
  /\ tids.list = <<1, 2, 3>>
  /\ NumPosts(d, 1) = 3 /\ NumPosts(d, 2) = 1 /\ NumPosts(d, 3) = 2
  /\ AllSendsAcked
  /\ Cardinality(SendIdx) = 6
  /\ \E f \in [1..6 -> SendIdx] :
       /\ \A a, b \in 1..6 : a < b => f[a] < f[b]
       /\ <<trace[f[1]].tid, trace[f[2]].tid, trace[f[3]].tid>> = <<1, 2, 3>>
       /\ <<trace[f[4]].tid, trace[f[5]].tid, trace[f[6]].tid>> = <<1, 3, 1>>
       /\ <<trace[f[4]].pos, trace[f[5]].pos, trace[f[6]].pos>> = <<1, 1, 2>>

(***************************************************************************)
(* C3: sequential mode send count and order.  For a known topic with       *)
(* N >= 1 posts, as long as every send is acknowledged the run does not    *)
(* fail, the n-th send of the trace is the send of position n - 1 of that  *)
(* topic, and when the run is done exactly N sends have been issued.       *)
(***************************************************************************)
C3_SequentialCountAndOrder ==
  (mode = "seq" /\ tid \in DOMAIN d /\ NumPosts(d, tid) >= 1 /\ AllSendsAcked) =>
    /\ pc # "failed"
    /\ \A n \in SendIdx :
         /\ trace[n].tid = tid
         /\ trace[n].pos = Cardinality({ m \in SendIdx : m < n })
    /\ Cardinality(SendIdx) <= NumPosts(d, tid)
    /\ pc = "done" => Cardinality(SendIdx) = NumPosts(d, tid)

C3_Witness ==
  /\ mode = "seq"
  /\ pc = "done"
  /\ NumPosts(d, tid) = 3
  /\ Cardinality(SendIdx) = 3
  /\ AllSendsAcked

(***************************************************************************)
(* C4: sequential mode threading.                                          *)
(***************************************************************************)
\* The send of topic t at position pos, when it has been issued.
SendOf(t, pos) == trace[CHOOSE n \in SendIdxOf(t) : trace[n].pos = pos]

\* C4 as claimed: the first send carries no thread identifier and no reply
\* reference, and the send of position p >= 1 carries the thread identifier
\* and the message identifier returned by the send of position p - 1.
C4_ThreadFromPrecedingSend ==
  mode = "seq" =>
    \A n \in SendIdx :
      IF trace[n].pos = 0
        THEN trace[n].thread_id = None /\ trace[n].reply_to = None
        ELSE /\ WasSent(tid, trace[n].pos - 1)
             /\ trace[n].thread_id = SendOf(tid, trace[n].pos - 1).result.threadId
             /\ trace[n].reply_to = SendOf(tid, trace[n].pos - 1).result.id

\* C4 as amended: the first send carries no thread identifier and no reply
\* reference; the send of position p >= 1 carries the thread identifier
\* returned by the send of position 0 and the message identifier returned
\* by the send of position p - 1.
C4_ThreadFromFirstSend ==
  mode = "seq" =>
    \A n \in SendIdx :
      IF trace[n].pos = 0
        THEN trace[n].thread_id = None /\ trace[n].reply_to = None
        ELSE /\ WasSent(tid, 0)
             /\ WasSent(tid, trace[n].pos - 1)
             /\ trace[n].thread_id = SendOf(tid, 0).result.threadId
             /\ trace[n].reply_to = SendOf(tid, trace[n].pos - 1).result.id

\* Position 2 has been sent after positions 0 and 1 were acknowledged with
\* different thread identifiers.
C4_Witness ==
  /\ mode = "seq"
  /\ WasSent(tid, 2)
  /\ SendOf(tid, 0).result.threadId # SendOf(tid, 1).result.threadId
  /\ SendOf(tid, 0).result.id # SendOf(tid, 1).result.id

(***************************************************************************)
(* C5: breadth-first per-topic threading.  The position-0 send of every    *)
(* topic carries a null thread identifier and a null reply reference, and  *)
(* the position-r send (r >= 1) of topic t carries the thread identifier   *)
(* and the message identifier returned by topic t's own position r - 1.    *)
(***************************************************************************)
C5_PerTopicThreading ==
  mode = "bf" =>
    \A n \in SendIdx :
      LET t == trace[n].tid
          pos == trace[n].pos
      IN IF pos = 0
           THEN trace[n].thread_id = None /\ trace[n].reply_to = None
           ELSE /\ WasSent(t, pos - 1)
                /\ trace[n].thread_id = SendOf(t, pos - 1).result.threadId
                /\ trace[n].reply_to = SendOf(t, pos - 1).result.id

\* The document held a 'thread_id' before the run, two topics were opened
\* with different acknowledgments, and both have had their position 1 sent.
C5_Witness ==
  /\ mode = "bf"
  /\ \E t, u \in Selected :
       /\ t # u
       /\ WasSent(t, 1) /\ WasSent(u, 1)
       /\ SendOf(t, 0).result.threadId # SendOf(u, 0).result.threadId
       /\ SendOf(t, 1).thread_id # SendOf(u, 1).thread_id
  /\ \E v \in DOMAIN d : v \notin Selected /\ d[v].thread_id = "t0"

(***************************************************************************)
(* C6: per-topic ordering in every run, aborted runs included.  The n-th   *)
(* send of a topic is the send of its position n - 1 (strictly increasing, *)
(* nothing skipped, nothing repeated), and a send of a position >= 1 of a  *)
(* topic comes after that topic's position-0 send, whose result carried    *)
(* the 'SENT' marker.                                                      *)
(***************************************************************************)
C6_PerTopicOrdering ==
  \A n \in SendIdx :
    LET t == trace[n].tid IN
    /\ trace[n].pos = Cardinality({ m \in SendIdxOf(t) : m < n })
    /\ trace[n].pos >= 1 =>
         \E m \in SendIdxOf(t) :
           /\ m < n
           /\ trace[m].pos = 0
           /\ CarriesSentMarker(trace[m].result)

\* An aborted breadth-first run in which a topic got beyond its opening post.
C6_Witness ==
  /\ mode = "bf"
  /\ pc = "failed"
  /\ \E t \in Selected : WasSent(t, 0) /\ WasSent(t, 1) /\ WasSent(t, 2)
  /\ ~AllSendsAcked

(***************************************************************************)
(* C7: the error raised on an unacknowledged send is the scheduler's       *)
(* 'Unable to send' exception and carries the topic identifier and the     *)
(* post position of the send that failed.                                  *)
(***************************************************************************)
C7_ErrorIdentifiesSend ==
  \A n \in SendIdx :
    ~CarriesSentMarker(trace[n].result) =>
      error = Raised("Exception_UnableToSend", trace[n].tid, trace[n].pos)

(***************************************************************************)
(* C8: the command selector drives the scheduling mode.  A run of main     *)
(* with 'all' that has ended without an unacknowledged send has sent every *)
(* post of every topic, position k of every topic before position k + 1 of *)
(* any topic; a run of main with one known topic identifier that has ended *)
(* without an unacknowledged send has sent the posts of that topic in      *)
(* position order, and nothing else.                                       *)
(***************************************************************************)
C8_SelectorDrivesMode ==
  (mode = "main" /\ Ended /\ AllSendsAcked) =>
    /\ argv = <<"all">> =>
         /\ \A t \in DOMAIN d : \A pos \in 0..(NumPosts(d, t) - 1) : WasSent(t, pos)
         /\ \A m, n \in SendIdx : m < n => trace[m].pos <= trace[n].pos
    /\ \A t \in DOMAIN d :
         argv = <<ToString(t)>> =>
           /\ \A pos \in 0..(NumPosts(d, t) - 1) : WasSent(t, pos)
           /\ \A n \in SendIdx :
                /\ trace[n].tid = t
                /\ trace[n].pos = Cardinality({ m \in SendIdx : m < n })

(***************************************************************************)
(* C9: the thread identifier of a topic.                                   *)
(***************************************************************************)
\* The topic's opening send has been acknowledged.
Populated(t) ==
  \E n \in SendIdxOf(t) : trace[n].pos = 0 /\ CarriesSentMarker(trace[n].result)

\* The thread identifier the scheduler holds for topic t.
ThreadState(t) == IF mode = "seq" THEN thread_id ELSE d[t].thread_id

\* The last send of topic t.
LastSendOf(t) ==
  trace[CHOOSE n \in SendIdxOf(t) : \A m \in SendIdxOf(t) : m <= n]

\* C9 as claimed: once the thread identifier of a topic has been populated
\* from the acknowledgment of its first send, no step changes it.
C9_ThreadIdWriteOnce ==
  [][ \A t \in DOMAIN d :
        (mode \in {"seq", "bf"} /\ (mode = "seq" => t = tid) /\ Populated(t)) =>
           ThreadState(t)' = ThreadState(t) ]_vars

\* C9 as amended: in sequential mode the thread identifier is the one the
\* acknowledgment of the first send returned, whatever later
\* acknowledgments return; in breadth-first mode the thread identifier of a
\* topic is the one that the latest acknowledged send of that topic
\* returned.
C9_ThreadIdSeqOnceBfLatest ==
  /\ (mode = "seq" /\ tid \in DOMAIN d /\ Populated(tid)) =>
        thread_id = SendOf(tid, 0).result.threadId
  /\ mode = "bf" =>
        \A t \in DOMAIN d :
          Populated(t) =>
            d[t].thread_id =
              IF CarriesSentMarker(LastSendOf(t).result)
                THEN LastSendOf(t).result.threadId
                ELSE SendOf(t, LastSendOf(t).pos - 1).result.threadId

\* A topic whose second acknowledgment returned another thread identifier
\* than its first, in each mode.
C9_Witness ==
  /\ mode = "bf"
  /\ \E t \in Selected :
       /\ WasSent(t, 1)
       /\ CarriesSentMarker(SendOf(t, 1).result)
       /\ SendOf(t, 1).result.threadId # SendOf(t, 0).result.threadId

C9_WitnessSeq ==
  /\ mode = "seq"
  /\ WasSent(tid, 1)
  /\ CarriesSentMarker(SendOf(tid, 1).result)
  /\ SendOf(tid, 1).result.threadId # SendOf(tid, 0).result.threadId

(***************************************************************************)
(* C10: sequential mode delay.  A sleep of SLEEP_DURATION_BETWEEN_MAILINGS *)
(* occurs between every two consecutive sends of the topic: no two sends   *)
(* are adjacent in the trace, the sends of positions 0 and 1 included.     *)
(***************************************************************************)
C10_DelayBetweenSends ==
  mode = "seq" =>
    \A m, n \in SendIdx :
      m < n =>
        \E s \in (m + 1)..(n - 1) :
          /\ trace[s].op = "sleep"
          /\ trace[s].dur = SLEEP_DURATION_BETWEEN_MAILINGS

C20_UnknownTopicPrecondition ==
  (mode = "bf" /\ pc # "bf_init" /\ ~(Selected \subseteq DOMAIN d)) =>
    /\ pc = "failed"
    /\ error.type = "Exception_TopicIdNotKnown"
    /\ SendIdx = {}

\* What the code does there: a KeyError, before any send.
C20_FailsWithKeyError ==
  (mode = "bf" /\ pc # "bf_init" /\ ~(Selected \subseteq DOMAIN d)) =>
    /\ pc = "failed"
    /\ error.type = "KeyError"
    /\ SendIdx = {}

(***************************************************************************)
(* Functions called on their own.  The scheduler's variables keep their    *)
(* initial values; d, tid, post_number and fs hold the arguments that the  *)
(* function has under those names, `call` the others, `ret` the outcome.   *)
(***************************************************************************)
SchedulerIdle ==
  /\ tids = TidsNone
  /\ argv = <<>>
  /\ i = 0
  /\ k = 0
  /\ most_posts_in_one_topic = 0
  /\ thread_id = Unbound
  /\ previous_message_id = Unbound
  /\ previous_message_id_by_tid = <<>>
  /\ result = NoResult
  /\ error = NoError
  /\ files = [f \in {"topics.json", "posts.json", "users.json",
                     "processed_post_data.json"} |-> 0]
  /\ trace = <<>>

Returned(v) == [status |-> "returned", value |-> v]

(***************************************************************************)
(* process_image_url called on its own.                                    *)
(***************************************************************************)
RefHttp == HTTP_PREFIX \o <<"x">>
RefHttps == HTTPS_PREFIX \o <<"x">>
RefInternal == INTERNAL_UPLOAD_PATH_PREFIX \o <<"f">>
RefUploads == PATH_TO_UPLOADS_DIR \o <<"f">>
RefLocal == <<"l">>

ImageRefs ==
  { RefHttp, RefHttps, RefInternal, RefUploads, RefLocal,
    <<>>,                                        \* the empty string
    INTERNAL_UPLOAD_PATH_PREFIX,                 \* the prefix and nothing more
    <<"h", "t", "t", "p", ":", "/">>,            \* not quite 'http://'
    <<"H", "T", "T", "P", ":", "/", "/", "x">>,  \* another case
    <<"/", "f", "o", "r", "u", "m", "/", "f">> } \* not the whole prefix

ImageUrls == {StrNone} \cup { Str(r) : r \in ImageRefs }

\* Paths that may exist locally: local paths, rewritten paths, and paths
\* spelled like the remote and internal references themselves.
LocalPaths == { RefUploads, RefLocal, PATH_TO_UPLOADS_DIR, RefHttp, RefHttps, RefInternal }

ImageDoc(img0, img1) ==
  [t \in {1} |->
     TopicEntryOf(DefaultTitle,
                  <<PostEntry(DefaultAuthor, DefaultCreated, DefaultCreated, img0),
                    PostEntry(DefaultAuthor, DefaultCreated, DefaultCreated, img1)>>,
                  Absent)]

InitImage ==
  /\ mode = "process_image_url"
  /\ pc = "call"
  /\ \E img \in ImageUrls : d \in {ImageDoc(img, StrNone), ImageDoc(Str(RefLocal), img)}
  /\ tid = 1
  /\ post_number \in {0, 1}
  /\ fs \in SUBSET LocalPaths
  /\ call = NoCall
  /\ ret = NoRet
  /\ SchedulerIdle

CallProcessImageUrl ==
  /\ mode = "process_image_url"
  /\ pc = "call"
  /\ ret' = Returned(process_image_url(d, tid, post_number, fs))
  /\ pc' = "returned"
  /\ UNCHANGED <<mode, d, tid, tids, argv, i, post_number, k,
                 most_posts_in_one_topic, thread_id, previous_message_id,
                 previous_message_id_by_tid, result, error, files, trace,
                 fs, call>>

NextImage == CallProcessImageUrl

SpecImage == InitImage /\ [][NextImage]_vars

(***************************************************************************)
(* C12: attachment resolution.  The result is absent when the post has no  *)
(* image reference and when the reference starts with 'http://' or         *)
(* 'https://', whatever exists locally; otherwise the reference, with the  *)
(* internal upload prefix replaced by the local uploads prefix when it     *)
(* starts with it, is returned if and only if that path exists, else the   *)
(* result is absent.  Every returned path exists and is no http(s)         *)
(* reference.                                                              *)
(***************************************************************************)
\* The image reference of the post the call is about.
GivenRef == d[tid].posts[post_number + 1].image_url

IsRemote(s) ==
  \/ Len(s) >= 7 /\ SubSeq(s, 1, 7) = <<"h", "t", "t", "p", ":", "/", "/">>
  \/ Len(s) >= 8 /\ SubSeq(s, 1, 8) = <<"h", "t", "t", "p", "s", ":", "/", "/">>

\* The reference after the rewrite of the internal upload prefix.
Rewritten(s) ==
  IF Len(s) >= Len(INTERNAL_UPLOAD_PATH_PREFIX)
     /\ \A j \in 1..Len(INTERNAL_UPLOAD_PATH_PREFIX) : s[j] = INTERNAL_UPLOAD_PATH_PREFIX[j]
    THEN PATH_TO_UPLOADS_DIR \o
         [j \in 1..(Len(s) - Len(INTERNAL_UPLOAD_PATH_PREFIX)) |->
            s[j + Len(INTERNAL_UPLOAD_PATH_PREFIX)]]
    ELSE s

C12_AttachmentResolution ==
  (mode = "process_image_url" /\ pc = "returned") =>
    /\ ret.status = "returned"
    /\ GivenRef.none => ret.value = StrNone
    /\ (~GivenRef.none /\ IsRemote(GivenRef.s)) => ret.value = StrNone
    /\ (~GivenRef.none /\ ~IsRemote(GivenRef.s)) =>
         /\ Rewritten(GivenRef.s) \in fs => ret.value = Str(Rewritten(GivenRef.s))
         /\ Rewritten(GivenRef.s) \notin fs => ret.value = StrNone
    /\ ~ret.value.none => (ret.value.s \in fs /\ ~IsRemote(ret.value.s))

\* An internal reference was rewritten and returned, while a file spelled
\* like the reference itself does not exist.
C12_Witness ==
  /\ mode = "process_image_url"
  /\ pc = "returned"
  /\ GivenRef = Str(RefInternal)
  /\ RefInternal \notin fs
  /\ ret.value = Str(RefUploads)

(***************************************************************************)
(* The scheduler on documents whose posts have image references.           *)
(***************************************************************************)
MaxAttachPosts == 3          \* most posts such a document holds

\* The image reference of the post at each position.
ImagePatterns == [0..(MaxPosts - 1) -> {StrNone, Str(RefInternal)}]

AttachDocs ==
  { [t \in TopicIds |->
       TopicEntryOf(DefaultTitle,
                    [j \in 1..cnt[t] |->
                       PostEntry(DefaultAuthor, DefaultCreated, DefaultCreated,
                                 img[j - 1])],
                    Absent)] :
      cnt \in { c \in PostCounts : SumOver(c, TopicIds) <= MaxAttachPosts },
      img \in ImagePatterns }

InitAttach ==
  /\ mode \in {"seq", "bf", "main"}
  /\ d \in AttachDocs
  /\ tid \in IF mode = "seq" THEN TopicIds \cup {UnknownTid} ELSE {0}
  /\ tids \in IF mode = "bf" THEN Selections ELSE {TidsNone}
  /\ argv \in IF mode = "main" THEN {<<"all">>} ELSE {<<>>}
  /\ pc = CASE mode = "seq" -> "seq_first"
            [] mode = "bf" -> "bf_init"
            [] OTHER -> "main_start"
  /\ i = 0
  /\ post_number = 0
  /\ k = 0
  /\ most_posts_in_one_topic = 0
  /\ thread_id = Unbound
  /\ previous_message_id = Unbound
  /\ previous_message_id_by_tid = <<>>
  /\ result = NoResult
  /\ error = NoError
  /\ files = [f \in {"topics.json", "posts.json", "users.json",
                     "processed_post_data.json"} |-> 0]
  /\ trace = <<>>
  /\ fs \in {{}, {RefUploads}}
  /\ call = NoCall
  /\ ret = NoRet

SpecAttach == InitAttach /\ [][Next]_vars

(***************************************************************************)
(* C18: every send, the opening send of a topic included, carries the      *)
(* attachment that process_image_url resolves for its topic and position.  *)
(***************************************************************************)
C18_EverySendCarriesAttachment ==
  \A n \in SendIdx :
    trace[n].attachment = process_image_url(d, trace[n].tid, trace[n].pos, fs)

\* What the code does: every send carries that attachment except the
\* opening send of sequential mode, which carries none.
C18_AllButSequentialOpening ==
  \A n \in SendIdx :
    trace[n].attachment =
      IF mode = "seq" /\ trace[n].pos = 0
        THEN StrNone
        ELSE process_image_url(d, trace[n].tid, trace[n].pos, fs)

\* A breadth-first opening send went out with its attachment.
C18_WitnessBf ==
  /\ mode = "bf"
  /\ \E n \in SendIdx : trace[n].pos = 0 /\ trace[n].attachment = Str(RefUploads)

(***************************************************************************)
(* construct_post_email_contents called on its own.  A text is modelled by *)
(* its lines; the html header is the same lines, each ended by '<br />'    *)
(* in place of the newline (line 545).                                     *)
(***************************************************************************)
MaxTitleLen == 41            \* longest title tried
MaxRenderPosts == 2          \* most posts of the rendered topic

\* Faulty variant: a title of 39 characters is truncated too.
shown_title_From39(topic_title) ==
  IF Len(topic_title) >= 39
    THEN SubSeq(topic_title, 1, 36) \o <<".", ".", ".">>
    ELSE topic_title

\* Lines 528-531.
shown_title(topic_title) ==
  IF Len(topic_title) > 39
    THEN SubSeq(topic_title, 1, 36) \o <<".", ".", ".">>
    ELSE topic_title

\* Faulty variant: the 'Post Updated' line is written whenever the post
\* has an updated timestamp, which is always.
updated_lines_Always(post) == <<[kind |-> "Post Updated", value |-> Str(<<post.updated>>)]>>

\* Lines 537-538.
updated_lines(post) ==
  IF post.created # post.updated
    THEN <<[kind |-> "Post Updated", value |-> Str(<<post.updated>>)]>>
    ELSE <<>>

\* Lines 521-543: the lines of the header.
header_lines(doc, t, pn) ==
  LET topic_title == doc[t].title
      post == doc[t].posts[pn + 1]
  IN (IF pn = 0 THEN <<[kind |-> "Topic posted by", value |-> StrNone]>> ELSE <<>>)
     \o <<[kind |-> "Post of Topic", value |-> Str(<<ToString(pn + 1)>> \o shown_title(topic_title))]>>
     \o <<[kind |-> "Post Created", value |-> Str(<<post.created>>)]>>
     \o updated_lines(post)
     \o (IF ~post.image_url.none
           THEN <<[kind |-> "Attached Image URL", value |-> post.image_url]>>
           ELSE <<>>)
     \o <<[kind |-> "Post Author", value |-> Str(<<post.author>>)]>>

\* Lines 507-551: the exception raised, or the pair (text, text_html).
construct_post_email_contents_value(doc, t, pn) ==
  LET pre == construct_post_email_contents(doc, t, pn) IN
  IF pre # "ok"
    THEN [status |-> "raised", error |-> pre]
    ELSE [status |-> "returned",
          text |-> [header |-> header_lines(doc, t, pn), eol |-> "\\n",
                    body |-> doc[t].posts[pn + 1].raw],
          text_html |-> [header |-> header_lines(doc, t, pn), eol |-> "<br />",
                         body |-> doc[t].posts[pn + 1].cooked]]

\* A title of n characters, each its own.
TitleOfLen(n) == [j \in 1..n |-> ToString(j)]

Timestamps == {"2017-01-01T01:00:00", "2017-01-02T02:00:00"}

RenderDocs ==
  { [t \in {1} |->
       TopicEntryOf(TitleOfLen(n),
                    [j \in 1..cnt |-> PostEntry(DefaultAuthor, cr, up, img)],
                    Absent)] :
      n \in 0..MaxTitleLen, cnt \in 0..MaxRenderPosts,
      cr \in Timestamps, up \in Timestamps,
      img \in {StrNone, Str(RefLocal)} }

InitRender ==
  /\ mode = "construct_post_email_contents"
  /\ pc = "call"
  /\ d \in RenderDocs
  /\ tid \in {1, 2}
  /\ post_number \in 0..(MaxRenderPosts + 1)
  /\ fs = {}
  /\ call = NoCall
  /\ ret = NoRet
  /\ SchedulerIdle

CallConstructPostEmailContents ==
  /\ mode = "construct_post_email_contents"
  /\ pc = "call"
  /\ ret' = construct_post_email_contents_value(d, tid, post_number)
  /\ pc' = "returned"
  /\ UNCHANGED <<mode, d, tid, tids, argv, i, post_number, k,
                 most_posts_in_one_topic, thread_id, previous_message_id,
                 previous_message_id_by_tid, result, error, files, trace,
                 fs, call>>

NextRender == CallConstructPostEmailContents

SpecRender == InitRender /\ [][NextRender]_vars

\* The call has returned a rendering.
Rendered ==
  mode = "construct_post_email_contents" /\ pc = "returned" /\ ret.status = "returned"

\* The lines of the given kind in a header.
LinesOf(header, kind) == { n \in 1..Len(header) : header[n].kind = kind }

(***************************************************************************)
(* C15: title truncation.  A title longer than 39 characters is rendered   *)
(* as its first 36 characters followed by '...', a title of 39 characters  *)
(* or fewer is rendered unmodified; the rendered title is never longer     *)
(* than 39 characters.                                                     *)
(***************************************************************************)
\* The title as the 'Post n of Topic' line of a header shows it.
TitleShownIn(header) ==
  LET n == CHOOSE x \in LinesOf(header, "Post of Topic") : TRUE
  IN Tail(header[n].value.s)

C15_TitleTruncation ==
  Rendered =>
    \A h \in {ret.text.header, ret.text_html.header} :
      LET title == d[tid].title
          shown == TitleShownIn(h)
      IN /\ Cardinality(LinesOf(h, "Post of Topic")) = 1
         /\ Len(title) >= 40 =>
              /\ Len(shown) = 39
              /\ \A j \in 1..36 : shown[j] = title[j]
              /\ \A j \in 37..39 : shown[j] = "."
         /\ Len(title) <= 39 => shown = title
         /\ Len(shown) <= 39

\* A title of exactly 40 characters has been rendered.
C15_Witness ==
  /\ Rendered
  /\ Len(d[tid].title) = 40
  /\ Len(TitleShownIn(ret.text.header)) = 39

\* A title of exactly 39 characters has been rendered.
C15_Witness39 ==
  /\ Rendered
  /\ Len(d[tid].title) = 39
  /\ TitleShownIn(ret.text.header) = d[tid].title

(***************************************************************************)
(* C16: the header contains the 'Post Updated:' line if and only if the    *)
(* post's updated timestamp differs from its created timestamp.            *)
(***************************************************************************)
C16_UpdatedLineIffDiffers ==
  Rendered =>
    \A h \in {ret.text.header, ret.text_html.header} :
      LET post == d[tid].posts[post_number + 1] IN
      /\ (LinesOf(h, "Post Updated") # {}) <=> (post.updated # post.created)
      /\ \A n \in LinesOf(h, "Post Updated") : h[n].value = Str(<<post.updated>>)

\* Rendered once with the line ...
C16_Witness ==
  /\ Rendered
  /\ d[tid].posts[post_number + 1].updated # d[tid].posts[post_number + 1].created
  /\ LinesOf(ret.text.header, "Post Updated") # {}

\* ... and once without.
C16_WitnessEqual ==
  /\ Rendered
  /\ d[tid].posts[post_number + 1].updated = d[tid].posts[post_number + 1].created
  /\ LinesOf(ret.text.header, "Post Updated") = {}

(***************************************************************************)
(* C19: renderer index precondition.  For a known topic the call fails     *)
(* with the renderer's own out-of-range exception for every post_index     *)
(* that is at least the number of posts, and returns a rendering for every *)
(* post_index from 0 up to the number of posts less one.                   *)
(***************************************************************************)
C19_IndexPrecondition ==
  (mode = "construct_post_email_contents" /\ pc = "returned" /\ tid \in DOMAIN d) =>
    /\ post_number >= NumPosts(d, tid) =>
         ret = [status |-> "raised", error |-> "Exception_NoSuchReply"]
    /\ post_number < NumPosts(d, tid) => ret.status = "returned"

\* What the code does: the index equal to the number of posts passes the
\* precondition and fails in the indexing that follows.
C19_IndexErrorAtCount ==
  (mode = "construct_post_email_contents" /\ pc = "returned" /\ tid \in DOMAIN d) =>
    /\ post_number > NumPosts(d, tid) =>
         ret = [status |-> "raised", error |-> "Exception_NoSuchReply"]
    /\ post_number = NumPosts(d, tid) =>
         ret = [status |-> "raised", error |-> "IndexError"]
    /\ post_number < NumPosts(d, tid) => ret.status = "returned"

\* Sequential emission of a topic without posts fails before any send.
C19_EmptyTopicFailsBeforeSend ==
  (mode = "seq" /\ tid \in DOMAIN d /\ NumPosts(d, tid) = 0 /\ pc # "seq_first") =>
    (pc = "failed" /\ SendIdx = {})

(***************************************************************************)
(* generate_single_dict called on its own.  A table is a sequence of rows; *)
(* a row is a record of the columns the function reads.  A user id is      *)
(* None or an integer.                                                     *)
(***************************************************************************)
MaxDictPosts == 3            \* most rows of the posts table

UidNone == [none |-> TRUE, id |-> 0]
Uid(n) == [none |-> FALSE, id |-> n]

UNKNOWN_USER == "UNKNOWN USER"

KeyError == [status |-> "raised", error |-> "KeyError"]

\* datetime.isoformat() of a day and an hour of January 2017.
isoformat(dt) ==
  "2017-01-0" \o ToString(dt.day) \o "T0" \o ToString(dt.hour) \o ":00:00"

\* Lines 200-209: usernames, names and emails, as one dict of rows by uid.
RECURSIVE index_users(_)
index_users(users) ==
  IF users = <<>> THEN <<>>
  ELSE LET before == index_users(SubSeq(users, 1, Len(users) - 1))
           user == users[Len(users)]
       IN [x \in DOMAIN before \cup {user.uid} |->
             IF x = user.uid THEN user ELSE before[x]]

\* usernames[uid], names[uid] and emails[uid] are all present.
has_user(uid, by_uid) == ~uid.none /\ uid.id \in DOMAIN by_uid

\* Lines 217 and 228.
author_string(uid, by_uid) ==
  by_uid[uid.id].uname \o " (" \o by_uid[uid.id].name \o " "
    \o by_uid[uid.id].email \o ")"

\* Lines 212-220: the topics loop; the subscript usernames[uid] raises
\* KeyError for a uid that is no key, None included.
RECURSIVE add_topics(_, _, _)
add_topics(dd, topics, by_uid) ==
  IF topics = <<>> THEN Returned(dd)
  ELSE LET topic == Head(topics) IN
       IF ~has_user(topic.uid, by_uid) THEN KeyError
       ELSE add_topics(
              [x \in DOMAIN dd \cup {topic.tid} |->
                 IF x = topic.tid
                   THEN [author |-> author_string(topic.uid, by_uid),
                         title |-> topic.title,
                         created |-> isoformat(topic.created),
                         posts |-> <<>>,
                         thread_id |-> Absent]
                   ELSE dd[x]],
              Tail(topics), by_uid)

\* Line 232: d[tid] raises KeyError for a topic id that is no key.
post_topic_known(dd, post) == post.tid \in DOMAIN dd

\* Lines 227-230.
post_author(post, by_uid) ==
  IF ~post.uid.none
    THEN IF has_user(post.uid, by_uid)
           THEN Returned(author_string(post.uid, by_uid))
           ELSE KeyError
    ELSE Returned(UNKNOWN_USER)

\* Lines 223-238: the posts loop.
RECURSIVE add_posts(_, _, _)
add_posts(dd, posts, by_uid) ==
  IF posts = <<>> THEN Returned(dd)
  ELSE LET post == Head(posts)
           author == post_author(post, by_uid)
       IN IF author.status = "raised" THEN author
          ELSE IF ~post_topic_known(dd, post) THEN KeyError
          ELSE add_posts(
                 [dd EXCEPT ![post.tid].posts =
                    Append(@, [author |-> author.value,
                               created |-> isoformat(post.created),
                               updated |-> isoformat(post.updated),
                               raw |-> post.raw,
                               cooked |-> post.cooked,
                               image_url |-> post.image_url])],
                 Tail(posts), by_uid)

\* Lines 165-241.
generate_single_dict(topics, posts, users) ==
  LET by_uid == index_users(users)
      with_topics == add_topics(<<>>, topics, by_uid)
  IN IF with_topics.status = "raised" THEN with_topics
     ELSE add_posts(with_topics.value, posts, by_uid)

UserRow(n) ==
  [uid |-> n, uname |-> "u" \o ToString(n), name |-> "N" \o ToString(n),
   email |-> "u" \o ToString(n) \o "@bob.not"]

\* The users table holds neither, one or both of the users 1 and 2.
UserTables == { <<>>, <<UserRow(1)>>, <<UserRow(1), UserRow(2)>> }

AuthorUids == { UidNone, Uid(1), Uid(2) }

TopicRow(t, uid) ==
  [tid |-> t, uid |-> uid, title |-> DefaultTitle, created |-> [day |-> t, hour |-> 0]]

\* The topics table is ordered by topic id (line 113).
TopicTables ==
  { <<>> }
    \cup { <<TopicRow(1, a)>> : a \in AuthorUids }
    \cup { <<TopicRow(2, a)>> : a \in AuthorUids }
    \cup { <<TopicRow(1, a), TopicRow(2, b)>> : a, b \in AuthorUids }

PostRow(n, t, uid) ==
  [pid |-> n, uid |-> uid, tid |-> t,
   raw |-> "raw" \o ToString(n), cooked |-> "cooked" \o ToString(n),
   created |-> [day |-> 1, hour |-> n], updated |-> [day |-> 2, hour |-> n],
   image_url |-> StrNone]

PostTables ==
  UNION { { [n \in 1..len |-> PostRow(n, ts[n], us[n])] :
              ts \in [1..len -> {1, 2}], us \in [1..len -> AuthorUids] } :
          len \in 0..MaxDictPosts }

InitDict ==
  /\ mode = "generate_single_dict"
  /\ pc = "call"
  /\ d = <<>>
  /\ tid = 1
  /\ post_number = 0
  /\ fs = {}
  /\ \E topics \in TopicTables, posts \in PostTables, users \in UserTables :
       call = [fn |-> "generate_single_dict", topics |-> topics,
               posts |-> posts, users |-> users]
  /\ ret = NoRet
  /\ SchedulerIdle

CallGenerateSingleDict ==
  /\ mode = "generate_single_dict"
  /\ pc = "call"
  /\ ret' = generate_single_dict(call.topics, call.posts, call.users)
  /\ d' = IF ret'.status = "returned" THEN ret'.value ELSE d
  /\ pc' = "returned"
  /\ UNCHANGED <<mode, tid, tids, argv, i, post_number, k,
                 most_posts_in_one_topic, thread_id, previous_message_id,
                 previous_message_id_by_tid, result, error, files, trace,
                 fs, call>>

NextDict == CallGenerateSingleDict

SpecDict == InitDict /\ [][NextDict]_vars

\* The call has ended, by a return or by an exception.
DictCalled == mode = "generate_single_dict" /\ pc = "returned"

\* The user id is absent, or names no row of the users table.
Unresolvable(uid) ==
  uid.none \/ \A n \in 1..Len(call.users) : call.users[n].uid # uid.id

TopicSet == { call.topics[n].tid : n \in 1..Len(call.topics) }

AllPostTopicsKnown == \A n \in 1..Len(call.posts) : call.posts[n].tid \in TopicSet

\* The entries of the built dict that were made from the n-th posts row.
EntriesOf(built, n) ==
  { <<t, j>> \in TopicSet \X (1..Len(call.posts)) :
      j <= Len(built[t].posts) /\ built[t].posts[j].raw = call.posts[n].raw }

(***************************************************************************)
(* C13: every topic and every post whose authoring user cannot be          *)
(* resolved, because the user id is null or because it names no user, gets *)
(* the author 'UNKNOWN USER', and the build does not fail.                 *)
(***************************************************************************)
C13_SentinelForUnresolvable ==
  (DictCalled /\ AllPostTopicsKnown) =>
    /\ ret.status = "returned"
    /\ \A n \in 1..Len(call.topics) :
         Unresolvable(call.topics[n].uid) =>
           ret.value[call.topics[n].tid].author = UNKNOWN_USER
    /\ \A n \in 1..Len(call.posts) :
         Unresolvable(call.posts[n].uid) =>
           \A e \in EntriesOf(ret.value, n) :
             ret.value[e[1]].posts[e[2]].author = UNKNOWN_USER

\* What the code does: only a post whose user id is null gets the
\* sentinel; an unresolvable topic author, and a post author that names no
\* user, end the build with a KeyError.
C13_SentinelOnlyForNullPostAuthor ==
  (DictCalled /\ AllPostTopicsKnown) =>
    /\ ret.status = "returned" <=>
         /\ \A n \in 1..Len(call.topics) : ~Unresolvable(call.topics[n].uid)
         /\ \A n \in 1..Len(call.posts) :
              call.posts[n].uid.none \/ ~Unresolvable(call.posts[n].uid)
    /\ ret.status = "raised" => ret = KeyError
    /\ ret.status = "returned" =>
         \A n \in 1..Len(call.posts) :
           call.posts[n].uid.none =>
             /\ EntriesOf(ret.value, n) # {}
             /\ \A e \in EntriesOf(ret.value, n) :
                  ret.value[e[1]].posts[e[2]].author = UNKNOWN_USER

\* A post without user id has been given the sentinel.
C13_WitnessNullPostAuthor ==
  /\ DictCalled
  /\ ret.status = "returned"
  /\ \E n \in 1..Len(call.posts) : call.posts[n].uid.none

(***************************************************************************)
(* C14: when every post's topic id is in the topic set, each input post    *)
(* appears exactly once in the output, in the post list of its own topic,  *)
(* and the posts of each topic keep their input order; a post whose topic  *)
(* id is not in the topic set makes the build fail with a lookup error.    *)
(***************************************************************************)
\* The 'raw' texts of the posts rows of topic t, in input order.
RECURSIVE InputRaws(_, _)
InputRaws(posts, t) ==
  IF posts = <<>> THEN <<>>
  ELSE (IF Head(posts).tid = t THEN <<Head(posts).raw>> ELSE <<>>)
         \o InputRaws(Tail(posts), t)

OutputRaws(built, t) == [j \in 1..Len(built[t].posts) |-> built[t].posts[j].raw]

KeepsEveryPostInOrder(built) ==
  /\ DOMAIN built = TopicSet
  /\ \A t \in TopicSet : OutputRaws(built, t) = InputRaws(call.posts, t)

C14_KeepsEveryPostInOrder ==
  DictCalled =>
    /\ AllPostTopicsKnown => (ret.status = "returned" /\ KeepsEveryPostInOrder(ret.value))
    /\ ~AllPostTopicsKnown => ret = KeyError

\* What the code does: the build that returns keeps every post in order,
\* and a post of an unknown topic never lets it return.
C14_KeepsEveryPostWhenBuilt ==
  DictCalled =>
    /\ ret.status = "returned" => (AllPostTopicsKnown /\ KeepsEveryPostInOrder(ret.value))
    /\ ~AllPostTopicsKnown => ret = KeyError

\* Two topics with interleaved posts have been built.
C14_WitnessInterleaved ==
  /\ DictCalled
  /\ ret.status = "returned"
  /\ Len(call.posts) = 3
  /\ call.posts[1].tid = 2 /\ call.posts[2].tid = 1 /\ call.posts[3].tid = 2

(***************************************************************************)
(* gmailer.SendMessage called on its own.  A MIME message is a record of   *)
(* its subtype, its headers and its parts; the payload handed to the       *)
(* service holds it encoded under 'raw'.                                   *)
(***************************************************************************)
\* base64.urlsafe_b64encode(msg.as_string())
urlsafe_b64encode(msg) == [encoding |-> "base64url", of |-> msg]

\* os.path.basename: what follows the last '/'.
RECURSIVE basename(_)
basename(path) ==
  IF path = <<>> THEN <<>>
  ELSE IF path[Len(path)] = "/" THEN <<>>
  ELSE Append(basename(SubSeq(path, 1, Len(path) - 1)), path[Len(path)])

\* gmailer.py lines 79-80 and 112-113: the header is set for a reply_to
\* that is not None.
in_reply_to_header(reply_to) == IF reply_to # None THEN reply_to ELSE Absent

\* gmailer.py lines 84-89 and 150-154.
payload(msg, th) ==
  [raw |-> urlsafe_b64encode(msg),
   threadId |-> IF th # None THEN th ELSE Absent]

\* gmailer.py lines 74-89.
CreateMessageHtml(sender, to, subject, msgHtml, msgPlain, th, reply_to) ==
  payload([subtype |-> "alternative",
           Subject |-> subject, From |-> sender, To |-> to,
           InReplyTo |-> in_reply_to_header(reply_to),
           parts |-> <<[type |-> "plain", content |-> msgPlain],
                       [type |-> "html", content |-> msgHtml]>>,
           attachment |-> StrNone],
          th)

\* gmailer.py lines 91-154.
createMessageWithAttachment(sender, to, subject, msgHtml, msgPlain, attachmentFile, th, reply_to) ==
  payload([subtype |-> "mixed",
           Subject |-> subject, From |-> sender, To |-> to,
           InReplyTo |-> in_reply_to_header(reply_to),
           parts |-> <<[type |-> "plain", content |-> msgPlain],
                       [type |-> "html", content |-> msgHtml]>>,
           attachment |-> Str(basename(attachmentFile.s))],
          th)

\* gmailer.py line 53: a path is true unless it is None or empty.
truthy(attachmentFile) == ~attachmentFile.none /\ attachmentFile.s # <<>>

\* gmailer.py lines 53-58: the message SendMessage builds.  Neither
\* builder is handed reply_to, which is left at its default.
message1(c) ==
  IF truthy(c.attachmentFile)
    THEN createMessageWithAttachment(c.sender, c.to, c.subject, c.msgHtml,
                                     c.msgPlain, c.attachmentFile, c.threadId, None)
    ELSE CreateMessageHtml(c.sender, c.to, c.subject, c.msgHtml, c.msgPlain,
                           c.threadId, None)

MailerAttachments == { StrNone, Str(<<>>), Str(RefUploads) }
MailerThreadIds == { None, "t1", "t2" }
MailerReplyTos == { None, "m1", "m2" }

InitMailer ==
  /\ mode = "SendMessage"
  /\ pc = "call"
  /\ d = <<>>
  /\ tid = 1
  /\ post_number = 0
  /\ fs \in SUBSET {RefUploads}
  /\ \E att \in MailerAttachments, th \in MailerThreadIds, reply \in MailerReplyTos :
       call = [fn |-> "SendMessage", sender |-> "BACKUP_MAILER",
               to |-> "FORUM_ADDRESS", subject |-> "T",
               msgHtml |-> "cooked", msgPlain |-> "raw",
               attachmentFile |-> att, threadId |-> th, reply_to |-> reply]
  /\ ret = NoRet
  /\ SchedulerIdle

\* gmailer.py lines 53-58; the builder with attachment opens the file
\* (lines 128-143), which fails for a file that is not there.
MailerCreateMessage ==
  /\ mode = "SendMessage"
  /\ pc = "call"
  /\ IF truthy(call.attachmentFile) /\ ~exists(call.attachmentFile.s, fs)
       THEN /\ ret' = [status |-> "raised", error |-> "IOError"]
            /\ pc' = "failed"
       ELSE /\ ret' = Returned(message1(call))
            /\ pc' = "created"
  /\ UNCHANGED <<mode, d, tid, tids, argv, i, post_number, k,
                 most_posts_in_one_topic, thread_id, previous_message_id,
                 previous_message_id_by_tid, result, error, files, trace,
                 fs, call>>

\* gmailer.py line 71: the string "Error", as a send result.
ErrorString ==
  [isdict |-> FALSE, haslabels |-> FALSE, labelIds |-> {},
   id |-> Absent, threadId |-> Absent]

\* gmailer.py line 66: what service.users().messages().send(...).execute()
\* does: it returns the service's answer, a dictionary, or raises an
\* HttpError, or raises some other exception (a socket error).
ExecuteOutcomes ==
  { [kind |-> "message", message |-> a] : a \in { r \in Acks : r.isdict } }
    \cup { [kind |-> "HttpError", message |-> NoResult],
           [kind |-> "socket.error", message |-> NoResult] }

\* gmailer.py lines 65-71: the value SendMessageInternal returns when
\* execute() returned or raised an HttpError.
SendMessageInternal(outcome) ==
  IF outcome.kind = "HttpError" THEN ErrorString ELSE outcome.message

\* gmailer.py lines 59-72: the service's answer, or "Error" after an
\* HttpError, is the result of SendMessage; an exception that is no
\* HttpError is not caught.
MailerSendInternal ==
  /\ mode = "SendMessage"
  /\ pc = "created"
  /\ \E outcome \in ExecuteOutcomes :
       /\ ret' = [status |-> "returned", value |-> ret.value, execute |-> outcome]
       /\ IF outcome.kind \in {"message", "HttpError"}
            THEN /\ result' = SendMessageInternal(outcome)
                 /\ pc' = "returned"
                 /\ UNCHANGED error
            ELSE /\ error' = Raised(outcome.kind, 0, 0)
                 /\ pc' = "failed"
                 /\ UNCHANGED result
  /\ UNCHANGED <<mode, d, tid, tids, argv, i, post_number, k,
                 most_posts_in_one_topic, thread_id, previous_message_id,
                 previous_message_id_by_tid, files, trace, fs, call>>

NextMailer == MailerCreateMessage \/ MailerSendInternal

SpecMailer == InitMailer /\ [][NextMailer]_vars

\* SendMessage has built the message it hands to the service.
MessageBuilt == mode = "SendMessage" /\ pc \in {"created", "returned"}

\* The MIME message inside the payload.
Outgoing == ret.value.raw.of

(***************************************************************************)
(* C11: when SendMessage is given a thread identifier the outgoing payload *)
(* carries that thread identifier, and when it is given a reply reference  *)
(* the outgoing message carries it as the In-Reply-To reference, both with *)
(* and without an attachment.                                              *)
(***************************************************************************)
C11_HonoursOptionalParameters ==
  MessageBuilt =>
    /\ call.threadId # None => ret.value.threadId = call.threadId
    /\ call.reply_to # None => Outgoing.InReplyTo = call.reply_to

\* What the code does: the thread identifier is carried exactly when
\* given, the reply reference never.
C11_ThreadIdOnly ==
  MessageBuilt =>
    /\ call.threadId # None => ret.value.threadId = call.threadId
    /\ call.threadId = None => ret.value.threadId = Absent
    /\ Outgoing.InReplyTo = Absent
    /\ Outgoing.attachment.none <=> ~truthy(call.attachmentFile)

\* A message with attachment, thread identifier and reply reference has
\* been handed to the service.
C11_WitnessAllGiven ==
  /\ mode = "SendMessage" /\ pc = "returned"
  /\ ~Outgoing.attachment.none
  /\ call.threadId # None
  /\ call.reply_to # None

(***************************************************************************)
(* mail_topics_as_posts_bf run to its end.  The function is one thread of  *)
(* control whose loops are over finite lists, so a step that can be taken  *)
(* is taken.                                                               *)
(***************************************************************************)
InitBf == Init /\ mode = "bf"

NextBf == BfInit \/ BfSkip \/ BfSend \/ BfRoundEnd \/ BfReturn

SpecBf == InitBf /\ [][NextBf]_vars /\ WF_vars(NextBf)

BfEnded == mode = "bf" /\ Ended

\* Every selected topic is a key of the document.
SelectionKnown == Selected \subseteq DOMAIN d

\* The rounds that ran to their end: each ends with the sleep of line 494.
RoundsRun ==
  Cardinality({ n \in 1..Len(trace) :
                  /\ trace[n].op = "sleep"
                  /\ trace[n].dur = SLEEP_DURATION_BETWEEN_TOPIC_ROUNDS })

\* The largest post count of the selected topics, 0 for an empty selection.
MaxPostCount ==
  LET S == { NumPosts(d, t) : t \in Selected } \cup {0}
  IN CHOOSE m \in S : \A n \in S : n <= m

TimesSent(t, pos) == Cardinality({ n \in SendIdxOf(t) : trace[n].pos = pos })

\* The run returned after as many rounds as the largest post count, with
\* every post of every selected topic sent once and acknowledged.
BfCompleted ==
  /\ pc = "done"
  /\ RoundsRun = MaxPostCount
  /\ AllSendsAcked
  /\ \A t \in Selected : \A pos \in 0..(NumPosts(d, t) - 1) : TimesSent(t, pos) = 1
  /\ Cardinality(SendIdx) = SumOver([t \in Selected |-> NumPosts(d, t)], Selected)

\* The run stopped at its first unacknowledged send, which is its last.
BfStoppedAtFirstUnacked ==
  /\ pc = "failed"
  /\ trace # <<>>
  /\ trace[Len(trace)].op = "send"
  /\ ~CarriesSentMarker(trace[Len(trace)].result)
  /\ \A n \in SendIdx \ {Len(trace)} : CarriesSentMarker(trace[n].result)
  /\ \A t \in Selected : \A pos \in 0..(NumPosts(d, t) - 1) : TimesSent(t, pos) <= 1

\* The run stopped in the first loop, at the lookup of a selected topic
\* that the document does not have, before any send.
BfStoppedAtLookup ==
  /\ pc = "failed"
  /\ error.type = "KeyError"
  /\ SendIdx = {}

(***************************************************************************)
(* C21: a breadth-first run terminates; it runs as many rounds as the      *)
(* largest post count of the selected topics, and it ends either with      *)
(* every post of every selected topic sent exactly once or at the first    *)
(* unacknowledged send, with no other outcome.                             *)
(***************************************************************************)
C21_CompleteOrFirstUnacked ==
  BfEnded => (BfCompleted \/ BfStoppedAtFirstUnacked)

\* As amended: the two outcomes are those of a selection of known topics;
\* a selection that names an unknown topic ends at the lookup, before any
\* send.  Every run ends.
C21_CompleteOrFirstError ==
  BfEnded =>
    IF SelectionKnown
      THEN BfCompleted \/ BfStoppedAtFirstUnacked
      ELSE BfStoppedAtLookup

C21_TerminatesCompleteOrFirstError ==
  /\ [] C21_CompleteOrFirstError
  /\ <> BfEnded

\* A run over several topics has returned after more than one round.
C21_Witness ==
  /\ BfEnded
  /\ BfCompleted
  /\ Cardinality(Selected) >= 2
  /\ RoundsRun >= 2
  /\ \E t \in Selected : NumPosts(d, t) < MaxPostCount

\* A run has stopped at an unacknowledged send after acknowledged ones.
C21_WitnessAborted ==
  /\ BfEnded
  /\ BfStoppedAtFirstUnacked
  /\ Cardinality(SendIdx) >= 2

\* A run on a selection with an unknown topic has stopped at the lookup.
C21_WitnessLookup ==
  /\ BfEnded
  /\ ~SelectionKnown
  /\ BfStoppedAtLookup

(***************************************************************************)
(* The scheduler and the mailer side by side: a run of either entry point  *)
(* of the scheduler, or one call of gmailer.SendMessage.                   *)
(***************************************************************************)
InitTransport == Init \/ InitMailer

NextTransport == Next \/ NextMailer

SpecTransport == InitTransport /\ [][NextTransport]_vars

\* This step of the scheduler is a send (in either mode) whose result is
\* the string "Error".
SchedulerSendGotError ==
  /\ mode \in {"seq", "bf"}
  /\ Len(trace') > Len(trace)
  /\ trace'[Len(trace) + 1].op = "send"
  /\ trace'[Len(trace) + 1].result = ErrorString

\* No thread or message identifier changes in this step.
IdentifiersUnchanged ==
  /\ thread_id' = thread_id
  /\ previous_message_id' = previous_message_id
  /\ previous_message_id_by_tid' = previous_message_id_by_tid
  /\ DOMAIN d' = DOMAIN d
  /\ \A t \in DOMAIN d : d'[t].thread_id = d[t].thread_id

\* This step is SendMessageInternal with execute() raising an HttpError.
InternalGotHttpError ==
  /\ mode = "SendMessage"
  /\ pc = "created"
  /\ pc' # "created"
  /\ ret'.execute.kind = "HttpError"

(***************************************************************************)
(* C22: SendMessageInternal does not let an HttpError propagate, it        *)
(* returns the string 'Error' in place of the acknowledgment dictionary;   *)
(* the scheduler, in both modes, does not take that value for a successful *)
(* send: it aborts the run and updates no thread or message identifier     *)
(* from it.                                                                *)
(***************************************************************************)
C22_HttpErrorBecomesAbort ==
  [][ /\ InternalGotHttpError =>
           (pc' = "returned" /\ result' = ErrorString /\ error' = NoError)
      /\ SchedulerSendGotError =>
           (pc' = "failed" /\ error' # NoError /\ IdentifiersUnchanged) ]_vars

\* A sequential run has aborted on "Error" after an acknowledged send.
C22_Witness ==
  /\ mode = "seq"
  /\ pc = "failed"
  /\ Len(trace) >= 2
  /\ trace[Len(trace)].op = "send"
  /\ trace[Len(trace)].result = ErrorString
  /\ thread_id # Unbound

\* A breadth-first run has aborted on "Error" after an acknowledged send.
C22_WitnessBf ==
  /\ mode = "bf"
  /\ pc = "failed"
  /\ Len(trace) >= 2
  /\ trace[Len(trace)].op = "send"
  /\ trace[Len(trace)].result = ErrorString
  /\ \E t \in DOMAIN d : d[t].thread_id \in {"t1", "t2"}

\* SendMessage has returned "Error" after an HttpError.
C22_WitnessMailer ==
  /\ mode = "SendMessage"
  /\ pc = "returned"
  /\ ret.execute.kind = "HttpError"
  /\ result = ErrorString

(***************************************************************************)
(* C23: a breadth-first run changes nothing in the document except the     *)
(* 'thread_id' field of the selected topics: the titles, the authors and   *)
(* the post lists of all topics, and every field of the topics that were   *)
(* not selected, stay as they were, whether the run completes or aborts.   *)
(***************************************************************************)
\* Topic t is the same in both documents, its 'thread_id' field aside.
SameButThread(t, before, after) ==
  /\ after[t].author = before[t].author
  /\ after[t].title = before[t].title
  /\ after[t].created = before[t].created
  /\ after[t].posts = before[t].posts

C23_FrameOfBreadthFirstRun ==
  [][ mode = "bf" =>
        /\ DOMAIN d' = DOMAIN d
        /\ \A t \in DOMAIN d :
             /\ SameButThread(t, d, d')
             /\ t \notin Selected' => d'[t] = d[t] ]_vars

\* A run has ended with the thread identifier of a selected topic stored
\* and a topic outside the selection holding the one it began with.
C23_Witness ==
  /\ BfEnded
  /\ \E t \in Selected \cap DOMAIN d : d[t].thread_id \in {"t1", "t2"}
  /\ \E u \in DOMAIN d \ Selected : d[u].thread_id = "t0"

====
